---- MODULE Spec2Model ----
(***************************************************************************)
(* Schema path transformation engine of the blueprint optimizer:           *)
(* SchemaFlattener / SchemaUnflattener (src/src/services/schema_converter) *)
(* and the Schema value object (src/src/models/schema.py).                 *)
(*                                                                         *)
(* JSON values.  Every value is a record [k, s, d]:                        *)
(*   k = "str"  : a Python str, s its text                                 *)
(*   k = "dict" : a Python dict, d its items in insertion order            *)
(*   k = "none" : None                                                     *)
(* A str is a sequence of tokens.  The characters the code inspects        *)
(* (".", "[", "*", "]") are tokens of their own; every other token is a    *)
(* run of characters the code only compares for equality.                  *)
(***************************************************************************)
EXTENDS Integers, Sequences, FiniteSets, TLC

VARIABLES
    doc,          \* the document handed to the engine
    api,          \* "dict": SchemaFlattener / SchemaUnflattener; "schema": Schema
    detected,     \* what is_nested_schema(doc) returned: "nested" or "flat"
    pc,           \* where the caller is
    definitions,  \* the flattener's self.definitions (Unset: no attribute yet)
    flat,         \* the flat document (a dict, or a Schema under api "schema")
    idx,          \* the path index flatten returned
    rewritten,    \* the flat keys whose instruction the caller rewrote
    used,         \* the path index handed to unflatten
    nested,       \* what unflatten returned
    calls,        \* flatten_schema calls in progress on one shared flattener
    loaded        \* the Schema the caller loaded and updates in place

vars == <<doc, api, detected, pc, definitions, flat, idx, rewritten, used, nested,
          calls, loaded>>

----------------------------------------------------------------------------
(* Python values *)

Str(s) == [k |-> "str", s |-> s, d |-> <<>>]

Dict(d) == [k |-> "dict", s |-> <<>>, d |-> d]

NoneV == [k |-> "none", s |-> <<>>, d |-> <<>>]

Item(key, val) == [key |-> key, val |-> val]

EmptyDict == Dict(<<>>)

IsDict(v) == v.k = "dict"

IsStr(v) == v.k = "str"

(* not v, for a str, a dict or None *)
Falsy(v) == v.s = <<>> /\ v.d = <<>>

(* key in d *)
Has(v, key) == \E i \in 1..Len(v.d) : v.d[i].key = key

(* d[key], for a key that is present *)
Get(v, key) == v.d[CHOOSE i \in 1..Len(v.d) : v.d[i].key = key].val

(* d.get(key, default) *)
GetOr(v, key, default) == IF Has(v, key) THEN Get(v, key) ELSE default

(* d[key] = val: an existing key keeps its position, a new one goes last
   (on a model: setting the field) *)
Put(v, key, val) ==
    IF Has(v, key)
    THEN [v EXCEPT !.d = [i \in 1..Len(v.d) |->
                            IF v.d[i].key = key THEN Item(key, val) ELSE v.d[i]]]
    ELSE [v EXCEPT !.d = Append(v.d, Item(key, val))]

KeysOf(v) == {v.d[i].key : i \in 1..Len(v.d)}

(* Python's == on values: dicts compare as mappings, whatever the order *)
RECURSIVE PyEq(_, _)
PyEq(a, b) ==
    /\ a.k = b.k
    /\ a.s = b.s
    /\ Len(a.d) = Len(b.d)
    /\ \A i \in 1..Len(a.d) :
          /\ Has(b, a.d[i].key)
          /\ PyEq(a.d[i].val, Get(b, a.d[i].key))

----------------------------------------------------------------------------
(* Python str operations on token sequences *)

(* s[i:] starts with pat *)
MatchAt(s, i, pat) ==
    /\ i + Len(pat) - 1 <= Len(s)
    /\ \A j \in 1..Len(pat) : s[i + j - 1] = pat[j]

(* s.startswith(pat) *)
StartsWith(s, pat) == MatchAt(s, 1, pat)

(* pat in s *)
Contains(s, pat) == \E i \in 1..(Len(s) + 1) : MatchAt(s, i, pat)

(* s.replace(pat, rep): every non-overlapping occurrence, left to right *)
RECURSIVE ReplaceFrom(_, _, _, _)
ReplaceFrom(s, i, pat, rep) ==
    IF i > Len(s) THEN <<>>
    ELSE IF MatchAt(s, i, pat)
         THEN rep \o ReplaceFrom(s, i + Len(pat), pat, rep)
         ELSE <<s[i]>> \o ReplaceFrom(s, i + 1, pat, rep)

Replace(s, pat, rep) == ReplaceFrom(s, 1, pat, rep)

(* s.split('.'): "" gives [""] *)
RECURSIVE SplitFrom(_, _, _)
SplitFrom(s, i, cur) ==
    IF i > Len(s) THEN <<cur>>
    ELSE IF s[i] = "."
         THEN <<cur>> \o SplitFrom(s, i + 1, <<>>)
         ELSE SplitFrom(s, i + 1, Append(cur, s[i]))

Split(s) == SplitFrom(s, 1, <<>>)

Star == <<"[", "*", "]">>

Dot == <<".">>

RefPrefix == <<"#/definitions/">>

----------------------------------------------------------------------------
(* The keys and values the code names *)

K_type == <<"type">>

K_properties == <<"properties">>

K_items == <<"items">>

K_ref == <<"$ref">>

K_instruction == <<"instruction">>

K_inferenceType == <<"inferenceType">>

K_definitions == <<"definitions">>

T_object == Str(<<"object">>)

T_array == Str(<<"array">>)

T_empty == Str(<<>>)

Unset == [k |-> "unset", s |-> <<>>, d |-> <<>>]

----------------------------------------------------------------------------
(* SchemaFlattener *)

(* The two dicts _flatten_properties fills, and whether an exception left it *)
Acc(flattened, path_mapping, raised) ==
    [flattened |-> flattened, path_mapping |-> path_mapping, raised |-> raised]

Raise(acc) == [acc EXCEPT !.raised = TRUE]

(* _build_nested_path giving the path without its array markers *)
_build_nested_path_unmarked(flat_path) == Str(Replace(flat_path, Star, <<>>))

(* _build_nested_path *)
_build_nested_path(flat_path) == Str(flat_path)

(* A terminal node passed over instead of recorded *)
RecordLeaf_skipped(acc, current_path, prop_def) == acc

(* A terminal node recorded only where its path holds nothing yet *)
RecordLeaf_first_kept(acc, current_path, prop_def) ==
    IF Has(acc.flattened, current_path) THEN acc
    ELSE Acc(Put(acc.flattened, current_path, prop_def),
             Put(acc.path_mapping, current_path, _build_nested_path(current_path)),
             acc.raised)

(* A terminal node of type array recorded under its path with the array
   marker added *)
RecordLeaf_array_marked(acc, current_path, prop_def) ==
    LET path == IF GetOr(prop_def, K_type, T_empty) = T_array
                THEN current_path \o Star ELSE current_path
    IN Acc(Put(acc.flattened, path, prop_def),
           Put(acc.path_mapping, path, _build_nested_path(path)),
           acc.raised)

(* flattened[current_path] = prop_def; path_mapping[current_path] = ... *)
RecordLeaf(acc, current_path, prop_def) ==
    Acc(Put(acc.flattened, current_path, prop_def),
        Put(acc.path_mapping, current_path, _build_nested_path(current_path)),
        acc.raised)

(* f"{prefix}.{prop_name}" if prefix else prop_name *)
CurrentPath(prefix, prop_name) ==
    IF prefix # <<>> THEN prefix \o Dot \o prop_name ELSE prop_name

(* The definition's name taken without decoding "%20" *)
DefName_undecoded(ref_path) == Replace(ref_path, RefPrefix, <<>>)

(* ref_path.replace("#/definitions/", "").replace("%20", " ") *)
DefName(ref_path) == Replace(Replace(ref_path, RefPrefix, <<>>), <<"%20">>, <<" ">>)

(* isinstance(items_def, dict) and items_def.get("type") == "object"
   and "properties" in items_def *)
ItemsAreObjects(items_def) ==
    /\ IsDict(items_def)
    /\ GetOr(items_def, K_type, NoneV) = T_object
    /\ Has(items_def, K_properties)

(* _flatten_properties.  self_defs is self.definitions (Unset: no such
   attribute).  stack holds the definitions being expanded: expanding one
   of them again never returns, which Python ends with RecursionError. *)
RECURSIVE _flatten_properties(_, _, _, _, _)
RECURSIVE FlattenLoop(_, _, _, _, _, _)
RECURSIVE FlattenProperty(_, _, _, _, _, _)

FlattenProperty(prop_name, prop_def, prefix, acc, self_defs, stack) ==
    IF ~IsDict(prop_def) THEN acc
    ELSE
    LET current_path == CurrentPath(prefix, prop_name)
        prop_type == GetOr(prop_def, K_type, T_empty)
    IN
    IF Has(prop_def, K_ref) THEN
        LET ref_path == Get(prop_def, K_ref) IN
        IF ~IsStr(ref_path) THEN Raise(acc)
        ELSE IF StartsWith(ref_path.s, RefPrefix) THEN
            LET def_name == DefName(ref_path.s) IN
            IF self_defs # Unset /\ ~IsDict(self_defs) THEN
                IF IsStr(self_defs) /\ ~Contains(self_defs.s, def_name)
                THEN RecordLeaf(acc, current_path, prop_def)
                ELSE Raise(acc)
            ELSE IF self_defs # Unset /\ Has(self_defs, def_name) THEN
                LET definition == Get(self_defs, def_name) IN
                IF IsDict(definition) /\ Has(definition, K_properties)
                THEN IF def_name \in stack THEN Raise(acc)
                     ELSE _flatten_properties(Get(definition, K_properties),
                              current_path, acc, self_defs, stack \cup {def_name})
                ELSE RecordLeaf(acc, current_path, prop_def)
            ELSE RecordLeaf(acc, current_path, prop_def)
        ELSE RecordLeaf(acc, current_path, prop_def)
    ELSE IF prop_type = T_object /\ Has(prop_def, K_properties) THEN
        _flatten_properties(Get(prop_def, K_properties), current_path, acc,
                            self_defs, stack)
    ELSE IF prop_type = T_array /\ Has(prop_def, K_items) THEN
        LET items_def == Get(prop_def, K_items) IN
        IF ItemsAreObjects(items_def)
        THEN _flatten_properties(Get(items_def, K_properties),
                                 current_path \o Star, acc, self_defs, stack)
        ELSE RecordLeaf(acc, current_path, prop_def)
    ELSE RecordLeaf(acc, current_path, prop_def)

(* for prop_name, prop_def in properties.items() *)
FlattenLoop(items, i, prefix, acc, self_defs, stack) ==
    IF i > Len(items) \/ acc.raised THEN acc
    ELSE FlattenLoop(items, i + 1, prefix,
             FlattenProperty(items[i].key, items[i].val, prefix, acc,
                             self_defs, stack),
             self_defs, stack)

_flatten_properties(properties, prefix, acc, self_defs, stack) ==
    IF ~IsDict(properties) THEN Raise(acc)
    ELSE FlattenLoop(properties.d, 1, prefix, acc, self_defs, stack)

(* The array branch accepting items of any type *)
PropertyIsNested_any_items(prop_def) ==
    /\ IsDict(prop_def)
    /\ \/ Has(prop_def, K_ref)
       \/ GetOr(prop_def, K_type, T_empty) = T_object /\ Has(prop_def, K_properties)
       \/ GetOr(prop_def, K_type, T_empty) = T_array /\ Has(prop_def, K_items)

(* _has_nested_properties: the loop, from item i on *)
PropertyIsNested(prop_def) ==
    /\ IsDict(prop_def)
    /\ \/ Has(prop_def, K_ref)
       \/ GetOr(prop_def, K_type, T_empty) = T_object /\ Has(prop_def, K_properties)
       \/ /\ GetOr(prop_def, K_type, T_empty) = T_array
          /\ Has(prop_def, K_items)
          /\ IsDict(Get(prop_def, K_items))
          /\ GetOr(Get(prop_def, K_items), K_type, T_empty) = T_object
          /\ Has(Get(prop_def, K_items), K_properties)

RECURSIVE HasNestedFrom(_, _)
HasNestedFrom(items, i) ==
    IF i > Len(items) THEN FALSE
    ELSE IF PropertyIsNested(items[i].val) THEN TRUE
    ELSE HasNestedFrom(items, i + 1)

_has_nested_properties(properties) == HasNestedFrom(properties.d, 1)

is_nested_schema(schema) ==
    IF ~Has(schema, K_properties) THEN FALSE
    ELSE _has_nested_properties(Get(schema, K_properties))

(* flatten_schema without the return for a document that is not nested *)
flatten_schema_always(nested_schema, self_defs) ==
    LET defs == GetOr(nested_schema, K_definitions, EmptyDict)
        acc == _flatten_properties(GetOr(nested_schema, K_properties, EmptyDict),
                                   <<>>, Acc(EmptyDict, EmptyDict, FALSE), defs, {})
    IN [flat |-> Put(nested_schema, K_properties, acc.flattened),
        idx |-> acc.path_mapping, definitions |-> defs, raised |-> acc.raised]

(* flatten_schema storing the definitions only of a document that has a
   table, and resolving against what is stored *)
flatten_schema_keeping_definitions(nested_schema, self_defs) ==
    IF ~is_nested_schema(nested_schema)
    THEN [flat |-> nested_schema, idx |-> EmptyDict, definitions |-> self_defs,
          raised |-> FALSE]
    ELSE
    LET defs == IF Has(nested_schema, K_definitions) \/ self_defs = Unset
                THEN GetOr(nested_schema, K_definitions, EmptyDict)
                ELSE self_defs
        acc == _flatten_properties(Get(nested_schema, K_properties), <<>>,
                                   Acc(EmptyDict, EmptyDict, FALSE), defs, {})
    IN [flat |-> Put(nested_schema, K_properties, acc.flattened),
        idx |-> acc.path_mapping, definitions |-> defs, raised |-> acc.raised]

(* flatten_schema: the returned pair, self.definitions after the call, and
   whether the call raised *)
flatten_schema(nested_schema, self_defs) ==
    IF ~is_nested_schema(nested_schema)
    THEN [flat |-> nested_schema, idx |-> EmptyDict, definitions |-> self_defs,
          raised |-> FALSE]
    ELSE
    LET defs == GetOr(nested_schema, K_definitions, EmptyDict)
        acc == _flatten_properties(Get(nested_schema, K_properties), <<>>,
                                   Acc(EmptyDict, EmptyDict, FALSE), defs, {})
    IN [flat |-> Put(nested_schema, K_properties, acc.flattened),
        idx |-> acc.path_mapping, definitions |-> defs, raised |-> acc.raised]

----------------------------------------------------------------------------
(* SchemaUnflattener *)

(* _parse_flat_path *)
ParseSegment(segment) ==
    IF Contains(segment, Star)
    THEN [type |-> "array", name |-> Replace(segment, Star, <<>>)]
    ELSE [type |-> "property", name |-> segment]

_parse_flat_path(flat_path) ==
    LET segments == Split(flat_path)
    IN [i \in 1..Len(segments) |-> ParseSegment(segments[i])]

(* An intermediate object created without its type *)
NewObject_untyped == Dict(<<Item(K_properties, EmptyDict)>>)

NewObject == Dict(<<Item(K_type, T_object), Item(K_properties, EmptyDict)>>)

(* An array node whose items carry no type *)
NewArray_items_untyped ==
    Dict(<<Item(K_type, T_array),
           Item(K_items, Dict(<<Item(K_properties, EmptyDict)>>))>>)

NewArray ==
    Dict(<<Item(K_type, T_array),
           Item(K_items, Dict(<<Item(K_type, T_object),
                                Item(K_properties, EmptyDict)>>))>>)

Ok(v) == [v |-> v, raised |-> FALSE]

Err(v) == [v |-> v, raised |-> TRUE]

(* Object identity.  unflatten puts the flat document's own property
   objects into the structure it builds, and walks into them again for
   later paths.  While unflatten runs, such an object is held by reference:
   Ref(key) stands for the object flat_schema["properties"][key], and objs
   maps every key to the present value of its object. *)
Ref(key) == [k |-> "ref", s |-> key, d |-> <<>>]

IsRef(v) == v.k = "ref"

Deref(v, objs) == IF IsRef(v) THEN Get(objs, v.s) ELSE v

(* container[key] = val, where container[key] is held inline or by
   reference *)
Held(container, key, objs) ==
    [ref |-> IsRef(Get(container, key)), val |-> Deref(Get(container, key), objs)]

Step3(v, objs, raised) == [v |-> v, objs |-> objs, raised |-> raised]

(* The step r built the value of container[key]: the container after it *)
SetHeld(container, key, r) ==
    IF IsRef(Get(container, key))
    THEN Step3(container, Put(r.objs, Get(container, key).s, r.v), r.raised)
    ELSE Step3(Put(container, key, r.v), r.objs, r.raised)

(* A value with every reference replaced by the object it stands for *)
RECURSIVE Expand(_, _)
Expand(v, objs) ==
    IF IsRef(v) THEN Expand(Get(objs, v.s), objs)
    ELSE IF v.d = <<>> THEN v
    ELSE [v EXCEPT !.d = [i \in 1..Len(v.d) |->
                            Item(v.d[i].key, Expand(v.d[i].val, objs))]]

(* _unflatten_property from part i on, current_level being the dict the
   cursor is at; the result is that dict after the insertion, with the
   objects as the insertion leaves them *)
(* An array node that keeps the items it has *)
SetItems_if_absent(node, prop_def) ==
    IF Has(node, K_items) THEN node ELSE Put(node, K_items, prop_def)

(* current_level[prop_name]["items"] = prop_def *)
SetItems(node, prop_def) == Put(node, K_items, prop_def)

RECURSIVE UnflattenAt(_, _, _, _, _)
UnflattenAt(current_level, path_parts, i, prop_def, objs) ==
    LET part == path_parts[i]
        is_last == (i = Len(path_parts))
        prop_name == part.name
    IN
    IF ~IsDict(current_level) THEN Step3(current_level, objs, TRUE)
    ELSE IF part.type = "property" THEN
        IF is_last THEN Step3(Put(current_level, prop_name, prop_def), objs, FALSE)
        ELSE
        LET level == IF ~Has(current_level, prop_name)
                     THEN Put(current_level, prop_name, NewObject)
                     ELSE current_level
            node == Held(level, prop_name, objs).val
        IN IF ~IsDict(node) \/ ~Has(node, K_properties) THEN Step3(level, objs, TRUE)
           ELSE SetHeld(level, prop_name,
                    SetHeld(node, K_properties,
                        UnflattenAt(Held(node, K_properties, objs).val,
                                    path_parts, i + 1, prop_def, objs)))
    ELSE
        LET level == IF ~Has(current_level, prop_name)
                     THEN Put(current_level, prop_name, NewArray)
                     ELSE current_level
            node == Held(level, prop_name, objs).val
        IN IF ~IsDict(node) THEN Step3(level, objs, TRUE)
           ELSE IF is_last
           THEN SetHeld(level, prop_name,
                        Step3(SetItems(node, prop_def), objs, FALSE))
           ELSE IF ~Has(node, K_items) THEN Step3(level, objs, TRUE)
           ELSE LET items_def == Held(node, K_items, objs).val IN
                IF ~IsDict(items_def) \/ ~Has(items_def, K_properties)
                THEN Step3(level, objs, TRUE)
                ELSE SetHeld(level, prop_name,
                         SetHeld(node, K_items,
                             SetHeld(items_def, K_properties,
                                 UnflattenAt(Held(items_def, K_properties, objs).val,
                                             path_parts, i + 1, prop_def, objs))))

(* prop_def is the flat document's own object for flat_path *)
_unflatten_property(flat_path, prop_def, nested_properties, objs) ==
    UnflattenAt(nested_properties, _parse_flat_path(flat_path), 1, prop_def, objs)

(* for flat_path, prop_def in flat_schema.get("properties", {}).items() *)
RECURSIVE UnflattenLoop(_, _, _)
UnflattenLoop(items, i, r) ==
    IF i > Len(items) \/ r.raised THEN r
    ELSE UnflattenLoop(items, i + 1,
             _unflatten_property(items[i].key, Ref(items[i].key), r.v, r.objs))

(* The flat document as the loop leaves it: every property object with the
   value it has now *)
InputAfter(flat_schema, objs) ==
    LET props == GetOr(flat_schema, K_properties, EmptyDict)
    IN IF ~Has(flat_schema, K_properties) \/ ~IsDict(props) THEN flat_schema
       ELSE Put(flat_schema, K_properties,
                Dict([i \in 1..Len(props.d) |->
                        Item(props.d[i].key, Expand(Ref(props.d[i].key), objs))]))

(* What the loop's last step r leaves: nested_properties, the flat
   document, and whether the loop raised *)
LoopResult(flat_schema, r) ==
    [v |-> Expand(r.v, r.objs),
     input |-> InputAfter(flat_schema, r.objs),
     raised |-> r.raised]

(* The loop of unflatten_schema over the flat properties *)
UnflattenAll(flat_schema) ==
    LET props == GetOr(flat_schema, K_properties, EmptyDict)
    IN LoopResult(flat_schema,
                  IF IsDict(props)
                  THEN UnflattenLoop(props.d, 1, Step3(EmptyDict, props, FALSE))
                  ELSE Step3(EmptyDict, EmptyDict, TRUE))

(* The base structure losing definitions as well *)
WithoutProperties_nor_definitions(schema) ==
    Dict(SelectSeq(schema.d, LAMBDA it : it.key \notin {K_properties, K_definitions}))

(* {k: v for k, v in flat_schema.items() if k != "properties"} *)
WithoutProperties(schema) ==
    Dict(SelectSeq(schema.d, LAMBDA it : it.key # K_properties))

(* nested_schema["properties"] = nested_properties on the base structure *)
Rebuilt(flat_schema, r) ==
    [v |-> Put(WithoutProperties(flat_schema), K_properties, r.v),
     input |-> r.input, raised |-> r.raised]

(* unflatten_schema rebuilding only the paths the index lists *)
unflatten_schema_indexed(flat_schema, path_mapping) ==
    IF Falsy(path_mapping)
    THEN [v |-> flat_schema, input |-> flat_schema, raised |-> FALSE]
    ELSE Rebuilt(flat_schema,
                 UnflattenAll(Put(flat_schema, K_properties,
                     Dict(SelectSeq(GetOr(flat_schema, K_properties, EmptyDict).d,
                                    LAMBDA it : Has(path_mapping, it.key))))))

(* unflatten_schema without the return for an empty path mapping *)
unflatten_schema_always(flat_schema, path_mapping) ==
    Rebuilt(flat_schema, UnflattenAll(flat_schema))

(* unflatten_schema: the returned document, the flat document as the call
   leaves it, and whether the call raised *)
unflatten_schema(flat_schema, path_mapping) ==
    IF Falsy(path_mapping)
    THEN [v |-> flat_schema, input |-> flat_schema, raised |-> FALSE]
    ELSE
    Rebuilt(flat_schema, UnflattenAll(flat_schema))

----------------------------------------------------------------------------
(* Schema and SchemaProperty (pydantic models): a value of kind "Schema" or
   "SchemaProperty" whose d holds the fields in declaration order *)

K_schema == <<"$schema">>

K_description == <<"description">>

K_class == <<"class">>

IsModel(v) == v.k \in {"Schema", "SchemaProperty"}

(* SchemaProperty from the keywords prop_def: three required str fields, other keys are
   ignored; anything else fails validation *)
SchemaPropertyValid(prop_def) ==
    /\ IsDict(prop_def)
    /\ \A key \in {K_type, K_inferenceType, K_instruction} :
          Has(prop_def, key) /\ IsStr(Get(prop_def, key))

SchemaProperty(prop_def) ==
    [k |-> "SchemaProperty", s |-> <<>>,
     d |-> <<Item(K_type, Get(prop_def, K_type)),
             Item(K_inferenceType, Get(prop_def, K_inferenceType)),
             Item(K_instruction, Get(prop_def, K_instruction))>>]

(* Schema from the keywords data: description, class and properties are required, $schema,
   type and definitions have defaults, other keys are ignored *)
SchemaValid(data) ==
    /\ IsDict(data)
    /\ \A key \in {K_description, K_class} :
          Has(data, key) /\ IsStr(Get(data, key))
    /\ \A key \in {K_schema, K_type} :
          Has(data, key) => IsStr(Get(data, key))
    /\ Has(data, K_definitions) => IsDict(Get(data, K_definitions))
    /\ Has(data, K_properties) /\ IsDict(Get(data, K_properties))

Schema(data) ==
    [k |-> "Schema", s |-> <<>>,
     d |-> <<Item(K_schema, GetOr(data, K_schema,
                      Str(<<"http://json-schema.org/draft-07/schema#">>))),
             Item(K_description, Get(data, K_description)),
             Item(K_class, Get(data, K_class)),
             Item(K_type, GetOr(data, K_type, T_object)),
             Item(K_definitions, GetOr(data, K_definitions, EmptyDict)),
             Item(K_properties, Get(data, K_properties))>>]

(* model_dump(by_alias=True): models become dicts, at every depth *)
RECURSIVE model_dump(_)
model_dump(v) ==
    IF v.d = <<>> THEN (IF IsModel(v) THEN EmptyDict ELSE v)
    ELSE Dict([i \in 1..Len(v.d) |-> Item(v.d[i].key, model_dump(v.d[i].val))])

(* Schema.from_file, after json.load: a property with the three leaf fields
   becomes a SchemaProperty, any other is kept *)
FromFileProperty(prop_def) ==
    IF IsDict(prop_def)
       /\ \A key \in {K_type, K_inferenceType, K_instruction} : Has(prop_def, key)
    THEN SchemaProperty(prop_def)
    ELSE prop_def

FromFileValid(data) ==
    /\ SchemaValid(data)
    /\ \A i \in 1..Len(Get(data, K_properties).d) :
          LET prop_def == Get(data, K_properties).d[i].val
          IN (IsDict(prop_def)
              /\ \A key \in {K_type, K_inferenceType, K_instruction} : Has(prop_def, key))
             => SchemaPropertyValid(prop_def)

from_file(data) ==
    LET props == Get(data, K_properties)
    IN Schema(Put(data, K_properties,
                  Dict([i \in 1..Len(props.d) |->
                          Item(props.d[i].key, FromFileProperty(props.d[i].val))])))

(* Schema.is_nested *)
is_nested(self) == is_nested_schema(model_dump(self))

(* flatten_for_optimization without the try / except around SchemaProperty *)
flatten_for_optimization_unguarded(self) ==
    LET r == flatten_schema(model_dump(self), Unset)
        props == GetOr(r.flat, K_properties, EmptyDict)
        kept == SelectSeq(props.d, LAMBDA it : SchemaPropertyValid(it.val))
        flattened_properties ==
            Dict([i \in 1..Len(kept) |->
                    Item(kept[i].key, SchemaProperty(kept[i].val))])
        data == Put(WithoutProperties(r.flat), K_properties, flattened_properties)
    IN IF r.raised \/ ~SchemaValid(data) \/ Len(kept) < Len(props.d)
       THEN [flat |-> NoneV, idx |-> r.idx, raised |-> TRUE]
       ELSE [flat |-> Schema(data), idx |-> r.idx, raised |-> FALSE]

(* Schema.flatten_for_optimization: the flat Schema, the path mapping, and
   whether the call raised *)
flatten_for_optimization(self) ==
    LET r == flatten_schema(model_dump(self), Unset)
        props == GetOr(r.flat, K_properties, EmptyDict)
        kept == SelectSeq(props.d, LAMBDA it : SchemaPropertyValid(it.val))
        flattened_properties ==
            Dict([i \in 1..Len(kept) |->
                    Item(kept[i].key, SchemaProperty(kept[i].val))])
        data == Put(WithoutProperties(r.flat), K_properties, flattened_properties)
    IN IF r.raised \/ ~SchemaValid(data)
       THEN [flat |-> NoneV, idx |-> r.idx, raised |-> TRUE]
       ELSE [flat |-> Schema(data), idx |-> r.idx, raised |-> FALSE]

(* Schema.unflatten_from_optimization *)
unflatten_from_optimization(self, flat_schema, path_mapping) ==
    IF Falsy(path_mapping) THEN Ok(flat_schema)
    ELSE LET r == unflatten_schema(model_dump(flat_schema), path_mapping)
         IN IF r.raised \/ ~SchemaValid(r.v) THEN Err(NoneV)
            ELSE Ok(Schema(r.v))

(* Schema.update_instruction: self after the call (the property is updated
   in place) *)
update_instruction(self, field_name, instruction) ==
    LET properties == Get(self, K_properties)
    IN IF Has(properties, field_name)
       THEN LET prop == Get(properties, field_name)
            IN IF prop.k = "SchemaProperty"
                  \/ (IsDict(prop) /\ Has(prop, K_instruction))
               THEN Put(self, K_properties,
                        Put(properties, field_name,
                            Put(prop, K_instruction, instruction)))
               ELSE self
       ELSE self

----------------------------------------------------------------------------
(* Input documents *)

(* How many property nodes a generated properties tree may hold *)
MaxNodes == 3

Text(t) == Str(<<t>>)

Leaf(type, instruction) ==
    Dict(<<Item(K_type, Text(type)),
           Item(K_inferenceType, Text("explicit")),
           Item(K_instruction, Text(instruction))>>)

ObjectNode(properties) ==
    Dict(<<Item(K_type, T_object), Item(K_properties, properties)>>)

ArrayNode(properties) ==
    Dict(<<Item(K_type, T_array),
           Item(K_items, Dict(<<Item(K_type, T_object),
                                Item(K_properties, properties)>>))>>)

RefNode(ref_path) == Dict(<<Item(K_ref, Str(ref_path))>>)

LeafA == Leaf("string", "Extract name")

LeafB == Dict(<<Item(K_type, Text("number")),
                Item(K_instruction, Text("Extract total"))>>)

(* Properties mappings of exactly k property nodes over the names
   names[i..], in that order; table[j] holds the nodes of j property nodes *)
RECURSIVE MapsFrom(_, _, _, _)
MapsFrom(names, i, k, table) ==
    IF k = 0 THEN {<<>>}
    ELSE IF i > Len(names) THEN {}
    ELSE MapsFrom(names, i + 1, k, table)
         \cup UNION { { <<Item(names[i], v)>> \o rest :
                          v \in table[j],
                          rest \in MapsFrom(names, i + 1, k - j, table) }
                      : j \in 1..k }

(* The nodes of 1, 2, ..., max property nodes: a leaf, or an object or an
   array of objects over a smaller mapping (an empty one too) *)
RECURSIVE NodeTable(_, _, _, _)
NodeTable(names, leaves, max, table) ==
    IF Len(table) >= max THEN table
    ELSE LET k == Len(table) + 1
             maps == MapsFrom(names, 1, k - 1, table)
         IN NodeTable(names, leaves, max,
                Append(table,
                    (IF k = 1 THEN leaves ELSE {})
                    \cup {ObjectNode(Dict(m)) : m \in maps}
                    \cup {ArrayNode(Dict(m)) : m \in maps}))

MapsUpTo(names, leaves, max) ==
    LET table == NodeTable(names, leaves, max, <<>>)
    IN UNION {MapsFrom(names, 1, k, table) : k \in 0..max}

(* Top-level documents.  before and after are the metadata items on either
   side of "properties". *)
Document(before, properties, after) ==
    Dict(before \o <<Item(K_properties, Dict(properties))>> \o after)

Metadata(defs) ==
    <<Item(<<"$schema">>, Text("http://json-schema.org/draft-07/schema#")),
      Item(<<"description">>, Text("Test schema")),
      Item(<<"class">>, Text("invoice")),
      Item(K_type, T_object),
      Item(K_definitions, defs)>>

NameA == <<"a">>

NameB == <<"b">>

(* 1. Every shape of object / array-of-objects nesting over two names *)
StructDocs ==
    { Document(Metadata(Dict(<<Item(<<"test">>, Text("value"))>>)), m,
               <<Item(<<"x-note">>, Text("kept"))>>)
        : m \in MapsUpTo(<<NameA, NameB>>, {LeafA, LeafB}, MaxNodes) }

(* 2. Every kind of property node, alone and in pairs, against every kind
      of definitions table *)
RefTo(name) == RefNode(RefPrefix \o name)

PropertyKinds ==
    { Text("scalar"),
      LeafA,
      LeafB,
      Dict(<<Item(K_type, T_object)>>),
      Dict(<<Item(K_type, T_array)>>),
      Dict(<<Item(K_type, T_array), Item(K_items, Text("string"))>>),
      Dict(<<Item(K_type, T_array),
             Item(K_items, Dict(<<Item(K_type, Text("string"))>>))>>),
      Dict(<<Item(K_type, T_array),
             Item(K_items, Dict(<<Item(K_type, T_object)>>))>>),
      Dict(<<Item(K_type, T_array),
             Item(K_items, ArrayNode(Dict(<<Item(NameB, LeafA)>>)))>>),
      Dict(<<Item(K_type, Text("string")),
             Item(K_properties, Dict(<<Item(NameB, LeafA)>>))>>),
      ObjectNode(EmptyDict),
      ObjectNode(Dict(<<Item(NameB, LeafA), Item(<<"n">>, Text("scalar"))>>)),
      ArrayNode(Dict(<<Item(NameB, LeafB)>>)),
      ObjectNode(Dict(<<Item(<<"r">>, RefTo(<<"D">>))>>)),
      RefTo(<<"D">>),
      RefTo(<<"D", "%20", "X">>),
      RefTo(<<"E">>),
      RefNode(<<"http://example.com/schema.json">>) }

(* A definition whose own property refers back to it *)
CyclicDefinitions ==
    Dict(<<Item(<<"D">>, ObjectNode(Dict(<<Item(<<"x">>, LeafA),
                                           Item(<<"y">>, RefTo(<<"D">>))>>)))>>)

DefinitionTables ==
    { EmptyDict,
      Dict(<<Item(<<"D">>, Dict(<<Item(K_properties,
                                       Dict(<<Item(<<"x">>, LeafA)>>))>>)),
             Item(<<"D", " ", "X">>, ObjectNode(Dict(<<Item(<<"y">>, LeafB)>>)))>>),
      Dict(<<Item(<<"D">>, Dict(<<Item(K_type, T_object)>>)),
             Item(<<"E">>, Text("value"))>>),
      Dict(<<Item(<<"D">>, ObjectNode(Dict(<<Item(<<"x">>, RefTo(<<"E">>))>>))),
             Item(<<"E">>, ObjectNode(Dict(<<Item(<<"y">>, LeafA),
                                             Item(<<"z">>, ArrayNode(Dict(<<Item(<<"w">>, LeafB)>>)))>>)))>>),
      Dict(<<Item(<<"D">>, ObjectNode(EmptyDict))>>),
      CyclicDefinitions }

KindMaps ==
    { <<Item(NameA, v)>> : v \in PropertyKinds }
    \cup { <<Item(NameA, v), Item(NameB, w)>> : v \in PropertyKinds, w \in PropertyKinds }

MetadataNoDefinitions ==
    <<Item(K_description, Text("Test schema")),
      Item(K_class, Text("invoice"))>>

KindDocs ==
    { Document(Metadata(defs), m, <<>>)
        : m \in KindMaps, defs \in DefinitionTables }
    \cup { Document(MetadataNoDefinitions, m, <<>>) : m \in KindMaps }
    \cup { Document(<<>>, <<Item(NameA, v)>>, <<>>) : v \in PropertyKinds }
    \cup { Dict(Metadata(EmptyDict)), EmptyDict }

(* 3. Property names that use the characters of the path grammar *)
GrammarNames ==
    { NameA, NameB, <<>>, <<"a", ".", "b">>, <<"a", "[", "*", "]">>,
      <<"a", "[", "*", "]", ".", "b">>, <<"a", "[", "*", "]", "b">> }

GrammarNodes ==
    { LeafA, LeafB,
      ObjectNode(Dict(<<Item(NameB, LeafA)>>)),
      ObjectNode(Dict(<<Item(<<>>, LeafB)>>)),
      ArrayNode(Dict(<<Item(NameB, LeafB)>>)),
      ObjectNode(Dict(<<Item(<<"b", ".", "c">>, LeafA)>>)),
      Dict(<<Item(K_type, Text("string")), Item(K_properties, EmptyDict)>>) }

GrammarMaps ==
    { <<Item(n, v)>> : n \in GrammarNames, v \in GrammarNodes }
    \cup { <<Item(n, v), Item(o, w)>> :
             n \in GrammarNames, o \in GrammarNames,
             v \in GrammarNodes, w \in GrammarNodes }

GrammarDocs ==
    { Document(MetadataNoDefinitions, m, <<>>)
        : m \in { x \in GrammarMaps : Len(x) = 1 \/ x[1].key # x[2].key } }

Documents == StructDocs \cup KindDocs \cup GrammarDocs

----------------------------------------------------------------------------
(* The caller: flatten, rewrite instructions on flat leaves, unflatten *)

NewInstruction == Text("Rewritten instruction")

(* An index that is not the document's own *)
ForeignIndex == Dict(<<Item(<<"zz">>, Text("zz"))>>)

Properties(schema) == GetOr(schema, K_properties, EmptyDict)

(* flat.properties[key].instruction = NewInstruction, for key in S *)
RewriteLeaves(schema, S) ==
    LET props == Properties(schema)
    IN Put(schema, K_properties,
           Dict([i \in 1..Len(props.d) |->
                   IF props.d[i].key \in S
                   THEN Item(props.d[i].key,
                             Put(props.d[i].val, K_instruction, NewInstruction))
                   ELSE props.d[i]]))

RewritableKeys(schema) ==
    LET props == Properties(schema)
    IN { props.d[i].key : i \in { j \in 1..Len(props.d) :
                                     IsDict(props.d[j].val) \/ IsModel(props.d[j].val) } }

Init ==
    /\ doc \in Documents
    /\ api = "none"
    /\ detected = "unknown"
    /\ pc = "loaded"
    /\ definitions = Unset
    /\ flat = NoneV
    /\ idx = NoneV
    /\ rewritten = {}
    /\ used = NoneV
    /\ nested = NoneV
    /\ calls = <<>>
    /\ loaded = NoneV

(* flattener.is_nested_schema(doc) *)
Detect ==
    /\ pc = "loaded"
    /\ detected' = IF is_nested_schema(doc) THEN "nested" ELSE "flat"
    /\ pc' = "start"
    /\ UNCHANGED <<doc, api, definitions, flat, idx, rewritten, used, nested, calls, loaded>>

(* flattened, path_mapping = flattener.flatten_schema(doc) *)
Flatten ==
    /\ pc = "start"
    /\ api' = "dict"
    /\ LET r == flatten_schema(doc, definitions)
       IN /\ flat' = r.flat
          /\ idx' = r.idx
          /\ definitions' = r.definitions
          /\ pc' = IF r.raised THEN "flatten raised" ELSE "flattened"
    /\ UNCHANGED <<doc, detected, rewritten, used, nested, calls, loaded>>

(* schema = Schema.from_file(...); schema.flatten_for_optimization() *)
SchemaFlatten ==
    /\ pc = "start"
    /\ api' = "schema"
    /\ IF ~FromFileValid(doc)
       THEN /\ pc' = "load raised"
            /\ UNCHANGED <<flat, idx>>
       ELSE LET r == flatten_for_optimization(from_file(doc))
            IN /\ flat' = r.flat
               /\ idx' = r.idx
               /\ pc' = IF r.raised THEN "flatten raised" ELSE "flattened"
    /\ UNCHANGED <<doc, detected, definitions, rewritten, used, nested, calls, loaded>>

(* The optimizer rewrites the instruction of some flat leaves; each
   rewritten leaf is an object of its own, as the SchemaProperty leaves of a
   flat Schema are *)
Rewrite ==
    /\ pc = "flattened"
    /\ rewritten = {}
    /\ \E S \in SUBSET RewritableKeys(flat) :
          /\ S # {}
          /\ flat' = RewriteLeaves(flat, S)
          /\ rewritten' = S
    /\ UNCHANGED <<doc, api, detected, pc, definitions, idx, used, nested, calls, loaded>>

(* nested = unflattener.unflatten_schema(flat, path_mapping); the call
   works on the objects of flat itself *)
Unflatten ==
    /\ pc = "flattened"
    /\ api = "dict"
    /\ \E path_mapping \in {idx, EmptyDict, ForeignIndex} :
          LET r == unflatten_schema(flat, path_mapping)
          IN /\ used' = path_mapping
             /\ nested' = r.v
             /\ flat' = r.input
             /\ pc' = IF r.raised THEN "unflatten raised" ELSE "unflattened"
    /\ UNCHANGED <<doc, api, detected, definitions, idx, rewritten, calls, loaded>>

(* nested = schema.unflatten_from_optimization(flat, path_mapping) *)
SchemaUnflatten ==
    /\ pc = "flattened"
    /\ api = "schema"
    /\ \E path_mapping \in {idx, EmptyDict, ForeignIndex} :
          LET r == unflatten_from_optimization(from_file(doc), flat, path_mapping)
          IN /\ used' = path_mapping
             /\ nested' = r.v
             /\ pc' = IF r.raised THEN "unflatten raised" ELSE "unflattened"
    /\ UNCHANGED <<doc, api, detected, definitions, flat, idx, rewritten, calls, loaded>>

Next == Detect \/ Flatten \/ SchemaFlatten \/ Rewrite \/ Unflatten \/ SchemaUnflatten

Spec == Init /\ [][Next]_vars

----------------------------------------------------------------------------
(* What the claims speak of, stated from their words *)

(* A name uses the path grammar when it holds a "." or a "[*]" *)
PlainName(name) == ~Contains(name, Dot) /\ ~Contains(name, Star)

SaneName(name) == name # <<>> /\ PlainName(name)

(* An object with properties / an array of objects with properties *)
IsObjectNode(node) ==
    IsDict(node) /\ GetOr(node, K_type, NoneV) = T_object /\ Has(node, K_properties)

IsArrayNode(node) ==
    /\ IsDict(node) /\ GetOr(node, K_type, NoneV) = T_array /\ Has(node, K_items)
    /\ IsObjectNode(Get(node, K_items))

(* The definition a $ref node names, "%20" read as a space *)
RefTarget(node) ==
    LET ref == Get(node, K_ref)
    IN Replace(SubSeq(ref.s, Len(RefPrefix) + 1, Len(ref.s)), <<"%20">>, <<" ">>)

IsResolvableRef(node, defs) ==
    /\ IsDict(node) /\ Has(node, K_ref) /\ IsStr(Get(node, K_ref))
    /\ StartsWith(Get(node, K_ref).s, RefPrefix)
    /\ IsDict(defs) /\ Has(defs, RefTarget(node))
    /\ IsDict(Get(defs, RefTarget(node)))
    /\ Has(Get(defs, RefTarget(node)), K_properties)

DefinitionsOf(document) == GetOr(document, K_definitions, EmptyDict)

Step(name, arr) == [name |-> name, arr |-> arr]

(* The leaves of a properties tree: every mapping-valued node that is no
   object with properties, no array of objects with properties and no
   resolvable $ref, with the steps that lead to it from the root *)
RECURSIVE LeavesUnder(_, _, _, _)
LeavesUnder(properties, path, defs, expanding) ==
    UNION { LET name == properties.d[i].key
                node == properties.d[i].val
            IN IF ~IsDict(node) THEN {}
               ELSE IF IsResolvableRef(node, defs)
               THEN IF RefTarget(node) \in expanding THEN {}
                    ELSE LeavesUnder(Get(Get(defs, RefTarget(node)), K_properties),
                                     Append(path, Step(name, FALSE)), defs,
                                     expanding \cup {RefTarget(node)})
               ELSE IF ~Has(node, K_ref) /\ IsObjectNode(node)
               THEN LeavesUnder(Get(node, K_properties),
                                Append(path, Step(name, FALSE)), defs, expanding)
               ELSE IF ~Has(node, K_ref) /\ IsArrayNode(node)
               THEN LeavesUnder(Get(Get(node, K_items), K_properties),
                                Append(path, Step(name, TRUE)), defs, expanding)
               ELSE {[steps |-> Append(path, Step(name, FALSE)), node |-> node]}
          : i \in 1..Len(properties.d) }

LeavesOf(document) ==
    LeavesUnder(Properties(document), <<>>, DefinitionsOf(document), {})

(* The names on a path joined with ".", an array's name suffixed "[*]" *)
RECURSIVE JoinSteps(_)
JoinSteps(steps) ==
    IF steps = <<>> THEN <<>>
    ELSE LET head == steps[1].name \o (IF steps[1].arr THEN Star ELSE <<>>)
         IN IF Len(steps) = 1 THEN head
            ELSE head \o Dot \o JoinSteps(Tail(steps))

(* The node a path of steps leads to in a nested properties tree (None when
   there is none) *)
RECURSIVE NodeAt(_, _)
NodeAt(properties, steps) ==
    IF ~IsDict(properties) \/ ~Has(properties, steps[1].name) THEN NoneV
    ELSE LET node == Get(properties, steps[1].name)
         IN IF Len(steps) = 1 THEN node
            ELSE IF steps[1].arr
            THEN IF IsArrayNode(node)
                 THEN NodeAt(Get(Get(node, K_items), K_properties), Tail(steps))
                 ELSE NoneV
            ELSE IF IsObjectNode(node)
                 THEN NodeAt(Get(node, K_properties), Tail(steps))
                 ELSE NoneV

FlattenedDict == pc = "flattened" /\ api = "dict"

UnflattenedDict == pc = "unflattened" /\ api = "dict"

----------------------------------------------------------------------------
(* C4: is_nested_schema is true iff the document has a properties mapping
   with at least one top-level property that is a mapping with a $ref key,
   or of type object with a properties key, or of type array with an items
   mapping of type object with a properties key; deeper levels do not
   count. *)
C4_Eligible(p) ==
    /\ IsDict(p)
    /\ \/ Has(p, K_ref)
       \/ Has(p, K_type) /\ Get(p, K_type) = T_object /\ Has(p, K_properties)
       \/ /\ Has(p, K_type) /\ Get(p, K_type) = T_array
          /\ Has(p, K_items) /\ IsDict(Get(p, K_items))
          /\ Has(Get(p, K_items), K_type)
          /\ Get(Get(p, K_items), K_type) = T_object
          /\ Has(Get(p, K_items), K_properties)

C4_NestedDetection ==
    detected # "unknown" =>
        (detected = "nested" <=>
            /\ Has(doc, K_properties)
            /\ \E i \in 1..Len(Get(doc, K_properties).d) :
                   C4_Eligible(Get(doc, K_properties).d[i].val))

(* An array of scalars beside an object without properties, found flat *)
C4_Witness ==
    /\ detected = "flat"
    /\ Has(doc, K_properties)
    /\ \E i, j \in 1..Len(Get(doc, K_properties).d) :
          /\ Get(doc, K_properties).d[i].val = Dict(<<Item(K_type, T_object)>>)
          /\ GetOr(Get(doc, K_properties).d[j].val, K_type, NoneV) = T_array

(* C5: when nested-detection is false, flatten_schema returns the document
   itself and an empty path index. *)
C5_FlatFastPath ==
    (FlattenedDict /\ detected = "flat" /\ rewritten = {}) =>
        (flat = doc /\ idx = EmptyDict)

C5_Witness ==
    /\ FlattenedDict /\ detected = "flat" /\ rewritten = {}
    /\ \E i \in 1..Len(Properties(doc).d) : ~IsDict(Properties(doc).d[i].val)

(* C8: every top-level key other than properties has the same value in the
   input document, in flatten_schema's document and in unflatten_schema's
   document. *)
SameMetadata(a, b) ==
    \A key \in KeysOf(a) \ {K_properties} : Has(b, key) /\ Get(b, key) = Get(a, key)

C8_MetadataPreserved ==
    /\ FlattenedDict => SameMetadata(doc, flat)
    /\ UnflattenedDict => SameMetadata(doc, flat) /\ SameMetadata(doc, nested)

C8_Witness ==
    /\ UnflattenedDict /\ detected = "nested" /\ used = idx /\ idx # EmptyDict
    /\ Has(doc, <<"x-note">>) /\ Has(doc, K_definitions) /\ Has(doc, K_schema)

(* C9: the path index flatten_schema returns is empty iff nested-detection
   is false for the document. *)
C9_IndexEmptyIffFlat ==
    FlattenedDict => (idx = EmptyDict <=> detected = "flat")

(* C10: after flatten_schema of a nested document the path index has the
   keys of the flat properties mapping and maps every flat path to itself. *)
C10_IndexMirrorsProperties ==
    (FlattenedDict /\ detected = "nested") =>
        /\ KeysOf(idx) = KeysOf(Properties(flat))
        /\ Len(idx.d) = Len(Properties(flat).d)
        /\ \A key \in KeysOf(idx) : Get(idx, key) = Str(key)

C10_Witness ==
    /\ FlattenedDict /\ detected = "nested"
    /\ Len(idx.d) >= 2
    /\ \E key \in KeysOf(idx) : Contains(key, Star \o Dot)

----------------------------------------------------------------------------
(* C1: for every document built only from object nodes with properties,
   array nodes whose items is an object with properties and $ref nodes that
   resolve to a definition with properties, unflatten_schema applied to the
   two results of flatten_schema returns a document equal to it. *)
RECURSIVE C1_Built(_, _, _)
C1_Built(properties, defs, expanding) ==
    /\ IsDict(properties)
    /\ \A i \in 1..Len(properties.d) :
          LET node == properties.d[i].val
          IN /\ IsDict(node)
             /\ IF IsResolvableRef(node, defs)
                THEN /\ RefTarget(node) \notin expanding
                     /\ C1_Built(Get(Get(defs, RefTarget(node)), K_properties),
                                 defs, expanding \cup {RefTarget(node)})
                ELSE IF Has(node, K_ref) THEN FALSE
                ELSE IF IsObjectNode(node)
                THEN C1_Built(Get(node, K_properties), defs, expanding)
                ELSE IF IsArrayNode(node)
                THEN C1_Built(Get(Get(node, K_items), K_properties), defs, expanding)
                ELSE /\ ~Has(node, K_properties) /\ ~Has(node, K_items)
                     /\ GetOr(node, K_type, NoneV) \notin {T_object, T_array}

RoundTripDone ==
    UnflattenedDict /\ used = idx /\ rewritten = {}

C1_RoundTripLaw ==
    (RoundTripDone /\ C1_Built(Properties(doc), DefinitionsOf(doc), {}))
        => PyEq(nested, doc)

(* C2: without $ref, when the nested nodes are exactly {type: object,
   properties: P} or {type: array, items: {type: object, properties: P}}
   with P non-empty, and the property names are non-empty and hold neither
   "." nor "[*]", unflatten_schema(flatten_schema(D)) equals D; every
   property is a schema node, that is a mapping. *)
RECURSIVE C2_Built(_)
C2_Built(properties) ==
    /\ IsDict(properties)
    /\ \A i \in 1..Len(properties.d) :
          LET node == properties.d[i].val
          IN /\ SaneName(properties.d[i].key)
             /\ IsDict(node)
             /\ ~Has(node, K_ref)
             /\ IF IsObjectNode(node)
                THEN /\ KeysOf(node) = {K_type, K_properties}
                     /\ Get(node, K_properties) # EmptyDict
                     /\ C2_Built(Get(node, K_properties))
                ELSE IF IsArrayNode(node)
                THEN /\ KeysOf(node) = {K_type, K_items}
                     /\ KeysOf(Get(node, K_items)) = {K_type, K_properties}
                     /\ Get(Get(node, K_items), K_properties) # EmptyDict
                     /\ C2_Built(Get(Get(node, K_items), K_properties))
                ELSE TRUE

C2_RoundTripWithoutRef ==
    (api = "dict" /\ used = idx /\ rewritten = {} /\ C2_Built(Properties(doc)))
        => /\ pc # "unflatten raised"
           /\ pc = "unflattened" => PyEq(nested, doc)

(* An array under an object under an object, rebuilt *)
C2_Witness ==
    /\ RoundTripDone /\ C2_Built(Properties(doc)) /\ detected = "nested"
    /\ \E key \in KeysOf(Properties(flat)) :
          /\ Contains(key, Star \o Dot)
          /\ Len(Split(key)) >= 3

(* C3: after flatten of a nested document and a rewrite of the instruction
   of any subset of the flat leaves, unflatten holds at each leaf's nested
   location the rewritten instruction for the rewritten leaves, and every
   other leaf keeps its type, inferenceType and instruction. *)
SameLeafFields(a, b, keys) ==
    \A key \in keys : GetOr(a, key, NoneV) = GetOr(b, key, NoneV)

InjectionHolds ==
    \A leaf \in LeavesOf(doc) :
        LET node == NodeAt(Properties(nested), leaf.steps)
        IN /\ node # NoneV
           /\ IF JoinSteps(leaf.steps) \in rewritten
              THEN /\ GetOr(node, K_instruction, NoneV) = NewInstruction
                   /\ SameLeafFields(node, leaf.node, {K_type, K_inferenceType})
              ELSE SameLeafFields(node, leaf.node,
                                  {K_type, K_inferenceType, K_instruction})

C3_InstructionInjection ==
    (UnflattenedDict /\ detected = "nested" /\ used = idx) => InjectionHolds

(* C6: unflatten_schema(F, {}) returns F unchanged, and
   Schema.unflatten_from_optimization(F, {}) returns the flat Schema F
   as-is, whatever the keys of F's properties. *)
C6_UnflattenFastPath ==
    (pc \in {"unflattened", "unflatten raised"} /\ used = EmptyDict) =>
        (pc = "unflattened" /\ nested = flat)

C6_Witness ==
    /\ pc = "unflattened" /\ used = EmptyDict /\ api = "schema"
    /\ \E key \in KeysOf(Properties(flat)) : Contains(key, Dot)

(* C7: the flat key of every leaf of a nested document is the property
   names on its path from the root joined with ".", each name of an array
   of objects with properties suffixed with "[*]"; the flat keys are these
   and no others, so none holds an array index. *)
FlatKeysFollowGrammar ==
    KeysOf(Properties(flat)) = {JoinSteps(leaf.steps) : leaf \in LeavesOf(doc)}

C7_PathGrammar ==
    (FlattenedDict /\ detected = "nested") => FlatKeysFollowGrammar

----------------------------------------------------------------------------
(* The path the walk has accumulated when it stands at the end of steps *)
RECURSIVE AccumulatedFrom(_, _)
AccumulatedFrom(prefix, steps) ==
    IF steps = <<>> THEN prefix
    ELSE LET current_path == CurrentPath(prefix, steps[1].name)
         IN AccumulatedFrom(current_path \o (IF steps[1].arr THEN Star ELSE <<>>),
                            Tail(steps))

AccumulatedPath(steps) == AccumulatedFrom(<<>>, steps)

PrefixOf(steps) == AccumulatedPath(SubSeq(steps, 1, Len(steps) - 1))

(* The property nodes the walk is to tolerate: a scalar, an array whose
   items is missing or is no object with properties, an object without
   properties, a $ref not of the form #/definitions/<name>, a $ref whose
   definition is missing, a $ref whose definition has no properties *)
IsTolerated(node, defs) ==
    /\ IsDict(node)
    /\ IF Has(node, K_ref)
       THEN /\ IsStr(Get(node, K_ref))
            /\ \/ ~StartsWith(Get(node, K_ref).s, RefPrefix)
               \/ ~Has(defs, RefTarget(node))
               \/ ~IsDict(Get(defs, RefTarget(node)))
               \/ ~Has(Get(defs, RefTarget(node)), K_properties)
       ELSE /\ Has(node, K_type)
            /\ \/ IsStr(Get(node, K_type)) /\ Get(node, K_type) \notin {T_object, T_array}
               \/ Get(node, K_type) = T_array /\ ~IsArrayNode(node)
               \/ Get(node, K_type) = T_object /\ ~Has(node, K_properties)

ToleratedLeaves(document) ==
    { leaf \in LeavesOf(document) : IsTolerated(leaf.node, DefinitionsOf(document)) }

FlattenDoneDict ==
    api = "dict" /\ detected = "nested" /\ rewritten = {} /\ pc = "flattened"

(* C11: while flattening a nested document, every property node that is a
   scalar, an array without object items with properties, an object
   without properties or a $ref that does not resolve to a definition with
   properties is recorded, without an exception, as a terminal leaf under
   its accumulated path with its node unchanged: the step of the walk at
   such a node records exactly that, and the flat document flatten_schema
   returns holds under that path a leaf that the document has there. *)
C11_MalformedTolerated ==
    (api = "dict" /\ detected = "nested" /\ rewritten = {}
       /\ pc \in {"flattened", "flatten raised"}) =>
        \A leaf \in ToleratedLeaves(doc) :
            LET path == AccumulatedPath(leaf.steps)
                step == FlattenProperty(leaf.steps[Len(leaf.steps)].name, leaf.node,
                                        PrefixOf(leaf.steps),
                                        Acc(EmptyDict, EmptyDict, FALSE),
                                        DefinitionsOf(doc), {})
            IN /\ ~step.raised
               /\ step.flattened = Dict(<<Item(path, leaf.node)>>)
               /\ pc = "flattened" =>
                    /\ Has(Properties(flat), path)
                    /\ Get(Properties(flat), path) \in
                          { other.node : other \in
                              { l \in LeavesOf(doc) : AccumulatedPath(l.steps) = path } }

(* An unresolvable $ref beside an object without properties, both kept *)
C11_Witness ==
    /\ FlattenDoneDict
    /\ \E l1, l2 \in ToleratedLeaves(doc) :
          /\ Has(l1.node, K_ref) /\ StartsWith(Get(l1.node, K_ref).s, RefPrefix)
          /\ l2.node = Dict(<<Item(K_type, T_object)>>)
          /\ Get(Properties(flat), AccumulatedPath(l1.steps)) = l1.node
          /\ Get(Properties(flat), AccumulatedPath(l2.steps)) = l2.node

----------------------------------------------------------------------------
(* The $ref properties the walk expands, with the steps that lead to each:
   those whose $ref is #/definitions/<name> and whose definition exists and
   has properties *)
RECURSIVE RefsUnder(_, _, _, _)
RefsUnder(properties, path, defs, expanding) ==
    UNION { LET name == properties.d[i].key
                node == properties.d[i].val
            IN IF ~IsDict(node) THEN {}
               ELSE IF IsResolvableRef(node, defs)
               THEN {[steps |-> Append(path, Step(name, FALSE)),
                      target |-> RefTarget(node)]}
                    \cup (IF RefTarget(node) \in expanding THEN {}
                          ELSE RefsUnder(Get(Get(defs, RefTarget(node)), K_properties),
                                         Append(path, Step(name, FALSE)), defs,
                                         expanding \cup {RefTarget(node)}))
               ELSE IF ~Has(node, K_ref) /\ IsObjectNode(node)
               THEN RefsUnder(Get(node, K_properties),
                              Append(path, Step(name, FALSE)), defs, expanding)
               ELSE IF ~Has(node, K_ref) /\ IsArrayNode(node)
               THEN RefsUnder(Get(Get(node, K_items), K_properties),
                              Append(path, Step(name, TRUE)), defs, expanding)
               ELSE {}
          : i \in 1..Len(properties.d) }

RefsOf(document) ==
    RefsUnder(Properties(document), <<>>, DefinitionsOf(document), {})

LeafNodesAt(document, path) ==
    { leaf.node : leaf \in { l \in LeavesOf(document) : AccumulatedPath(l.steps) = path } }

(* C12: for a property whose $ref is #/definitions/<name>, "%20" read as a
   space, and whose definition exists and has properties, flatten_schema
   records no leaf of its own at the property's path and records the
   leaves of the definition's properties, found by the same rules, under
   that path as prefix. *)
C12_RefExpansion ==
    FlattenDoneDict =>
        \A ref \in RefsOf(doc) :
            LET own == AccumulatedPath(ref.steps)
                inner == LeavesUnder(Get(Get(DefinitionsOf(doc), ref.target), K_properties),
                                     <<>>, DefinitionsOf(doc), {ref.target})
            IN /\ Has(Properties(flat), own) =>
                     Get(Properties(flat), own) \in LeafNodesAt(doc, own)
               /\ \A leaf \in inner :
                     LET path == AccumulatedFrom(own, leaf.steps)
                     IN /\ Has(Properties(flat), path)
                        /\ Get(Properties(flat), path) \in LeafNodesAt(doc, path)
                        /\ Has(idx, path)

(* A $ref with an encoded space beside a $ref below an object, both
   expanded *)
C12_Witness ==
    /\ FlattenDoneDict
    /\ \E ref \in RefsOf(doc) : Contains(ref.target, <<" ">>)
    /\ \E ref \in RefsOf(doc) : Len(ref.steps) >= 2
    /\ \E key \in KeysOf(Properties(flat)) : Len(Split(key)) >= 3

----------------------------------------------------------------------------
(* C13: flatten_schema terminates on every finite document with a finite
   definitions table, its recursion no deeper than the nesting of the
   input, however the definitions' own properties use $ref: every call
   returns, none ends in the RecursionError of a walk that re-enters a
   definition it is expanding. *)
C13_FlattenTerminates ==
    (api = "dict" /\ pc \in {"flattened", "flatten raised"}) => pc = "flattened"

----------------------------------------------------------------------------
(* Two callers flattening different documents through one SchemaFlattener.
   A call's locals (its document, flattened_properties and path_mapping,
   the top-level property the walk has reached) are its own; the
   flattener's self.definitions is the shared attribute.  The walk of one
   top-level property is taken as one step. *)

Callers == {1, 2}

SharedMaps ==
    { <<Item(NameA, LeafA)>>,
      <<Item(NameA, RefTo(<<"D">>))>>,
      <<Item(NameA, LeafA), Item(NameB, RefTo(<<"D">>))>>,
      <<Item(NameA, RefTo(<<"D">>)), Item(NameB, RefTo(<<"E">>))>>,
      <<Item(NameA, ObjectNode(Dict(<<Item(NameB, LeafB)>>)))>> }

SharedDocs ==
    { Document(Metadata(defs), m, <<>>) :
        m \in SharedMaps, defs \in DefinitionTables \ {CyclicDefinitions} }

NewCall(document) ==
    [doc |-> document, at |-> "called", i |-> 1,
     acc |-> Acc(EmptyDict, EmptyDict, FALSE), result |-> NoneV]

Returned(flattened_schema, path_mapping) ==
    [k |-> "tuple", s |-> <<>>,
     d |-> <<Item(<<"0">>, flattened_schema), Item(<<"1">>, path_mapping)>>]

InitShared ==
    /\ calls \in { c \in [Callers -> {NewCall(d) : d \in SharedDocs}] :
                     c[1].doc # c[2].doc }
    /\ definitions = Unset
    /\ doc = NoneV
    /\ api = "none"
    /\ detected = "unknown"
    /\ pc = "shared"
    /\ flat = NoneV
    /\ idx = NoneV
    /\ rewritten = {}
    /\ used = NoneV
    /\ nested = NoneV
    /\ loaded = NoneV

(* Lines 28-36: the return for a document that is not nested, else
   self.definitions = nested_schema.get("definitions", {}) *)
CallBegin(t) ==
    /\ calls[t].at = "called"
    /\ IF ~is_nested_schema(calls[t].doc)
       THEN /\ calls' = [calls EXCEPT ![t].at = "returned",
                                      ![t].result = Returned(calls[t].doc, EmptyDict)]
            /\ UNCHANGED definitions
       ELSE /\ calls' = [calls EXCEPT ![t].at = "walking"]
            /\ definitions' = GetOr(calls[t].doc, K_definitions, EmptyDict)
    /\ UNCHANGED <<doc, api, detected, pc, flat, idx, rewritten, used, nested, loaded>>

(* Lines 39-45: the walk handles its next top-level property, resolving
   every $ref against self.definitions as it is now *)
CallWalk(t) ==
    /\ calls[t].at = "walking"
    /\ calls[t].i <= Len(Properties(calls[t].doc).d)
    /\ LET it == Properties(calls[t].doc).d[calls[t].i]
           acc == FlattenProperty(it.key, it.val, <<>>, calls[t].acc, definitions, {})
       IN calls' = [calls EXCEPT ![t].acc = acc,
                                 ![t].i = @ + 1,
                                 ![t].at = IF acc.raised THEN "raised" ELSE "walking"]
    /\ UNCHANGED <<doc, api, detected, pc, definitions, flat, idx, rewritten, used, nested, loaded>>

(* Lines 47-51 *)
CallReturn(t) ==
    /\ calls[t].at = "walking"
    /\ calls[t].i > Len(Properties(calls[t].doc).d)
    /\ calls' = [calls EXCEPT
                   ![t].at = "returned",
                   ![t].result = Returned(Put(calls[t].doc, K_properties,
                                              calls[t].acc.flattened),
                                          calls[t].acc.path_mapping)]
    /\ UNCHANGED <<doc, api, detected, pc, definitions, flat, idx, rewritten, used, nested, loaded>>

NextShared ==
    \/ \E t \in Callers : CallBegin(t)
    \/ \E t \in Callers : CallWalk(t)
    \/ \E t \in Callers : CallReturn(t)

SpecShared == InitShared /\ [][NextShared]_vars

(* C14: flatten invocations that run concurrently on different documents
   through one shared SchemaFlattener each return exactly what the
   invocation returns when run alone, however their steps interleave. *)
C14_CallsIndependent ==
    \A t \in Callers :
        LET alone == flatten_schema(calls[t].doc, Unset)
        IN /\ calls[t].at = "returned" =>
                /\ ~alone.raised
                /\ calls[t].result = Returned(alone.flat, alone.idx)
           /\ calls[t].at = "raised" => alone.raised

----------------------------------------------------------------------------
(* C15: flatten_schema and unflatten_schema never modify the document
   passed to them: when either call has returned, the input document's
   top-level keys, its properties mapping and every node in it have the
   values they had before the call. *)
C15_InputsUnmodified ==
    [][ /\ (pc = "start" /\ pc' = "flattened" /\ api' = "dict") => doc' = doc
        /\ (pc = "flattened" /\ pc' = "unflattened" /\ api = "dict") => flat' = flat
      ]_vars

----------------------------------------------------------------------------
(* The leaves flatten_schema produces for the loaded Schema *)
FlattenedLeaves ==
    Properties(flatten_schema(model_dump(from_file(doc)), Unset).flat).d

HasLeafFields(prop_def) ==
    /\ IsDict(prop_def)
    /\ \A key \in {K_type, K_inferenceType, K_instruction} : Has(prop_def, key)

WellFormedLeaves == SelectSeq(FlattenedLeaves, LAMBDA it : HasLeafFields(it.val))

SchemaFlattenDone ==
    api = "schema" /\ pc = "flattened" /\ rewritten = {}

(* C16: Schema.flatten_for_optimization keeps in the flat Schema exactly the
   flattened leaves that have type, inferenceType and instruction, in their
   order and each with exactly those three fields and the leaf's values; a
   leaf missing one of the three is left out without an error: the call
   raises only when the walk of flatten_schema raises. *)
C16_MalformedLeavesDropped ==
    /\ SchemaFlattenDone =>
          /\ flat.k = "Schema"
          /\ Len(Properties(flat).d) = Len(WellFormedLeaves)
          /\ \A i \in 1..Len(WellFormedLeaves) :
                LET leaf == WellFormedLeaves[i].val
                    kept == Properties(flat).d[i]
                IN /\ kept.key = WellFormedLeaves[i].key
                   /\ kept.val.k = "SchemaProperty"
                   /\ kept.val.d = <<Item(K_type, Get(leaf, K_type)),
                                     Item(K_inferenceType, Get(leaf, K_inferenceType)),
                                     Item(K_instruction, Get(leaf, K_instruction))>>
    /\ (api = "schema" /\ pc = "flatten raised") =>
          flatten_schema(model_dump(from_file(doc)), Unset).raised

(* A nested Schema with a leaf that is kept and a leaf that is dropped *)
C16_Witness ==
    /\ SchemaFlattenDone
    /\ ~Falsy(idx)
    /\ 0 < Len(WellFormedLeaves)
    /\ Len(WellFormedLeaves) < Len(FlattenedLeaves)

----------------------------------------------------------------------------
(* C17: for every Schema on which is_nested() is false, malformed properties
   (an object without properties, an array whose items lack properties)
   included, flatten_for_optimization returns an empty path mapping and a
   Schema whose properties equal the original Schema's properties. *)
C17_FlatSchemaUnchanged ==
    (SchemaFlattenDone /\ ~is_nested(from_file(doc)))
        => /\ Falsy(idx)
           /\ PyEq(Properties(flat), Properties(from_file(doc)))

----------------------------------------------------------------------------
(* A caller that loads a Schema and updates the instructions of its fields
   by name *)

(* The names a caller has for the fields of self: the top-level property
   names and the flat field names of flatten_for_optimization *)
FieldNames(self) ==
    KeysOf(Get(self, K_properties))
    \cup KeysOf(Properties(flatten_for_optimization(self).flat))

InitUpdate ==
    /\ doc \in StructDocs
    /\ loaded = from_file(doc)
    /\ rewritten = {}
    /\ pc = "update"
    /\ api = "schema"
    /\ detected = "unknown"
    /\ definitions = Unset
    /\ flat = NoneV
    /\ idx = NoneV
    /\ used = NoneV
    /\ nested = NoneV
    /\ calls = <<>>

(* loaded.update_instruction(field_name, NewInstruction) *)
UpdateInstruction ==
    /\ pc = "update"
    /\ \E field_name \in FieldNames(loaded) \ rewritten :
          /\ loaded' = update_instruction(loaded, field_name, NewInstruction)
          /\ rewritten' = rewritten \cup {field_name}
    /\ UNCHANGED <<doc, api, detected, pc, definitions, flat, idx, used, nested, calls>>

NextUpdate == UpdateInstruction

SpecUpdate == InitUpdate /\ [][NextUpdate]_vars

(* The field of the dumped properties that the path parts name, from part
   i on: through the properties of an object and of an array's items *)
RECURSIVE FieldAt(_, _, _)
FieldAt(properties, path_parts, i) ==
    LET part == path_parts[i]
    IN IF ~IsDict(properties) \/ ~Has(properties, part.name) THEN NoneV
       ELSE LET node == Get(properties, part.name)
                inner == IF part.type = "array" THEN GetOr(node, K_items, NoneV)
                         ELSE node
            IN IF i = Len(path_parts) THEN inner
               ELSE FieldAt(GetOr(inner, K_properties, NoneV), path_parts, i + 1)

(* The field field_name names in self: the top-level property of that name,
   else the field at that dot-notation path *)
NamedField(self, field_name) ==
    LET properties == Get(model_dump(self), K_properties)
    IN IF Has(properties, field_name) THEN Get(properties, field_name)
       ELSE FieldAt(properties, _parse_flat_path(field_name), 1)

(* C18: Schema.update_instruction(field_name, instruction) sets the
   instruction of the named field, when field_name is a top-level field
   name and when it is a dot-notation path to a field nested inside a
   nested schema. *)
C18_UpdateInstruction ==
    pc = "update" =>
        \A field_name \in rewritten :
            LET field == NamedField(loaded, field_name)
            IN (IsDict(field) /\ Has(field, K_instruction))
                  => Get(field, K_instruction) = NewInstruction

----------------------------------------------------------------------------
(* C19: unflatten_schema has no error path: for every flat document whose
   properties maps path strings to leaf nodes and every index, the outputs
   of flatten_schema among them, it returns a nested document and never
   raises. *)
C19_UnflattenNeverRaises ==
    (api = "dict" /\ pc \in {"unflattened", "unflatten raised"})
        => pc = "unflattened"

----------------------------------------------------------------------------
(* nested_properties when the loop of unflatten_schema has processed the
   first k flat paths *)
NestedAfter(flat_schema, k) ==
    LET props == Properties(flat_schema)
        r == UnflattenLoop(SubSeq(props.d, 1, k), 1, Step3(EmptyDict, props, FALSE))
    IN [v |-> Expand(r.v, r.objs), raised |-> r.raised]

(* The node is still there: a mapping with the fields it had, whatever was
   placed beneath it since *)
Remains(before, after) ==
    IF ~IsDict(before) THEN after = before
    ELSE /\ IsDict(after)
         /\ \A key \in KeysOf(before) \ {K_properties, K_items} :
               Has(after, key) /\ Get(after, key) = Get(before, key)

(* C20: while unflatten_schema processes the flat paths in order, a
   non-final segment whose name is already present at the current level
   never replaces the existing node: the node and every leaf placed beneath
   it by earlier paths remain, and the new leaf is added beneath the same
   node.  Stated of the paths whose processing completes. *)
C20_IntermediateNodesKept ==
    (api = "dict" /\ pc = "flattened") =>
        LET items == Properties(flat).d
        IN \A k \in 1..(Len(items) - 1) :
              LET before == NestedAfter(flat, k)
                  after == NestedAfter(flat, k + 1)
                  q == _parse_flat_path(items[k + 1].key)
              IN ~before.raised =>
                    \A j \in 1..(Len(q) - 1) :
                        LET node == FieldAt(before.v, SubSeq(q, 1, j), 1)
                        IN (node # NoneV /\ ~after.raised) =>
                              /\ Remains(node, FieldAt(after.v, SubSeq(q, 1, j), 1))
                              /\ \A m \in 1..k :
                                    LET p == _parse_flat_path(items[m].key)
                                    IN (/\ Len(p) > j
                                        /\ SubSeq(p, 1, j) = SubSeq(q, 1, j)
                                        /\ FieldAt(before.v, p, 1) # NoneV)
                                          => Remains(FieldAt(before.v, p, 1),
                                                     FieldAt(after.v, p, 1))
                              /\ Remains(items[k + 1].val, FieldAt(after.v, q, 1))

----------------------------------------------------------------------------
(* s.endswith(pat) *)
EndsWith(s, pat) ==
    Len(s) >= Len(pat) /\ MatchAt(s, Len(s) - Len(pat) + 1, pat)

(* The unflattener has parsed the paths of flat *)
PathsParsed ==
    api = "dict" /\ pc \in {"unflattened", "unflatten raised"} /\ ~Falsy(used)

(* C21: path parsing tags a segment as array exactly when the raw segment
   ends in "[*]", the stored name being the segment with that "[*]"
   stripped, and tags every other segment as property with the segment
   itself as name. *)
C21_SegmentTags ==
    PathsParsed =>
        \A key \in KeysOf(Properties(flat)) :
            LET segments == Split(key)
                parts == _parse_flat_path(key)
            IN /\ Len(parts) = Len(segments)
               /\ \A i \in 1..Len(segments) :
                     IF EndsWith(segments[i], Star)
                     THEN /\ parts[i].type = "array"
                          /\ parts[i].name = SubSeq(segments[i], 1,
                                                    Len(segments[i]) - Len(Star))
                     ELSE /\ parts[i].type = "property"
                          /\ parts[i].name = segments[i]

----------------------------------------------------------------------------
(* The flat document as the caller handed it to unflatten_schema *)
FlatInput ==
    IF rewritten = {} THEN flatten_schema(doc, Unset).flat
    ELSE RewriteLeaves(flatten_schema(doc, Unset).flat, rewritten)

(* The level the loop stands at after the first j parts of a path: the
   properties of an object, the properties of an array's items *)
RECURSIVE LevelAt(_, _, _)
LevelAt(properties, path_parts, j) ==
    IF j = 0 THEN properties
    ELSE LET level == LevelAt(properties, path_parts, j - 1)
             part == path_parts[j]
             node == IF IsDict(level) /\ Has(level, part.name)
                     THEN Get(level, part.name) ELSE NoneV
             inner == IF part.type = "array" THEN GetOr(node, K_items, NoneV)
                      ELSE node
         IN GetOr(inner, K_properties, NoneV)

LastIsArray(flat_path) ==
    _parse_flat_path(flat_path)[Len(_parse_flat_path(flat_path))].type = "array"

(* The node the last part of a path names, NoneV when there is none *)
LastNode(properties, path_parts) ==
    LET level == LevelAt(properties, path_parts, Len(path_parts) - 1)
        name == path_parts[Len(path_parts)].name
    IN IF IsDict(level) /\ Has(level, name) THEN Get(level, name) ELSE NoneV

(* C22: when the last segment of a flat path is array-tagged (the key a[*]),
   unflatten_schema ensures the node for that name exists, created as
   {type: array, items: {type: object, properties: {}}} when absent, then
   sets that node's items to the leaf node, and leaves every other
   top-level property of the result as it was; a path of that one segment
   never raises. *)
C22_ArrayLeafFallback ==
    PathsParsed =>
        LET items == Properties(FlatInput).d
        IN \A k \in 0..(Len(items) - 1) :
              LET before == NestedAfter(FlatInput, k)
                  after == NestedAfter(FlatInput, k + 1)
                  q == _parse_flat_path(items[k + 1].key)
                  leaf == items[k + 1].val
                  was == LastNode(before.v, q)
              IN (LastIsArray(items[k + 1].key) /\ IsDict(leaf) /\ ~before.raised) =>
                    /\ (Len(q) = 1 /\ (was = NoneV \/ IsDict(was))) => ~after.raised
                    /\ ~after.raised =>
                          /\ PyEq(LastNode(after.v, q),
                                  Put(IF was = NoneV THEN NewArray ELSE was,
                                      K_items, leaf))
                          /\ KeysOf(after.v) = KeysOf(before.v) \cup {q[1].name}
                          /\ \A key \in KeysOf(before.v) \ {q[1].name} :
                                Get(after.v, key) = Get(before.v, key)

(* unflatten_schema returned after a path whose last segment is
   array-tagged found no node of its name and created it *)
C22_Witness ==
    /\ PathsParsed
    /\ pc = "unflattened"
    /\ LET items == Properties(FlatInput).d
       IN \E k \in 0..(Len(items) - 1) :
             /\ LastIsArray(items[k + 1].key)
             /\ IsDict(items[k + 1].val)
             /\ LastNode(NestedAfter(FlatInput, k).v,
                         _parse_flat_path(items[k + 1].key)) = NoneV

----------------------------------------------------------------------------
(* The leaves of a properties tree in the order the walk visits them, from
   property i of this level on *)
RECURSIVE LeafSeqFrom(_, _, _, _, _)
LeafSeqFrom(properties, i, path, defs, expanding) ==
    IF i > Len(properties.d) THEN <<>>
    ELSE
    LET name == properties.d[i].key
        node == properties.d[i].val
        here == Append(path, Step(name, FALSE))
        found ==
            IF ~IsDict(node) THEN <<>>
            ELSE IF IsResolvableRef(node, defs)
            THEN IF RefTarget(node) \in expanding THEN <<>>
                 ELSE LeafSeqFrom(Get(Get(defs, RefTarget(node)), K_properties), 1,
                                  here, defs, expanding \cup {RefTarget(node)})
            ELSE IF ~Has(node, K_ref) /\ IsObjectNode(node)
            THEN LeafSeqFrom(Get(node, K_properties), 1, here, defs, expanding)
            ELSE IF ~Has(node, K_ref) /\ IsArrayNode(node)
            THEN LeafSeqFrom(Get(Get(node, K_items), K_properties), 1,
                             Append(path, Step(name, TRUE)), defs, expanding)
            ELSE <<[steps |-> here, node |-> node]>>
    IN found \o LeafSeqFrom(properties, i + 1, path, defs, expanding)

LeafSeq(document) ==
    LeafSeqFrom(Properties(document), 1, <<>>, DefinitionsOf(document), {})

(* C23: when two different nested locations of a document produce the same
   flat path, flatten_schema neither fails nor keeps both: the flat
   properties hold one entry for that path, and its value is the node of
   the location visited last in traversal order.  The only calls that
   raise are those on the definitions table that refers to itself. *)
C23_LastWriteWins ==
    /\ (api = "dict" /\ pc = "flatten raised")
          => DefinitionsOf(doc) = CyclicDefinitions
    /\ FlattenDoneDict =>
        LET visited == LeafSeq(doc)
            props == Properties(flat)
        IN /\ \A i, j \in 1..Len(props.d) :
                 props.d[i].key = props.d[j].key => i = j
           /\ \A n \in 1..Len(visited) :
                 LET path == AccumulatedPath(visited[n].steps)
                 IN (\A m \in (n + 1)..Len(visited) :
                        AccumulatedPath(visited[m].steps) # path)
                       => /\ Has(props, path)
                          /\ Get(props, path) = visited[n].node

(* Two locations with different nodes and one flat path *)
C23_Witness ==
    /\ FlattenDoneDict
    /\ \E n, m \in 1..Len(LeafSeq(doc)) :
          /\ n < m
          /\ AccumulatedPath(LeafSeq(doc)[n].steps) = AccumulatedPath(LeafSeq(doc)[m].steps)
          /\ LeafSeq(doc)[n].node # LeafSeq(doc)[m].node

----------------------------------------------------------------------------
(* C24: nested-detection is conservative: whenever is_nested_schema(D) is
   true the Flattener decomposes at least one top-level property, so the
   flat properties returned by flatten_schema(D) differ from D's
   properties. *)
C24_DetectionConservative ==
    (FlattenDoneDict /\ is_nested_schema(doc))
        => ~PyEq(Properties(flat), Properties(doc))

----------------------------------------------------------------------------
(* Non-empty indexes to compare: the document's own, one with foreign
   keys, one that maps a name of the document to another path *)
MisleadingIndex == Dict(<<Item(NameA, Str(NameB))>>)

NonEmptyIndexes == { i \in {idx, ForeignIndex, MisleadingIndex} : ~Falsy(i) }

(* C25: unflatten_schema uses the path index only as an empty / non-empty
   signal: for every flat document F and any two non-empty indexes,
   whatever their keys and values, the calls return the same document (and
   raise alike). *)
C25_IndexOnlySignal ==
    PathsParsed =>
        \A other \in NonEmptyIndexes :
            LET r == unflatten_schema(FlatInput, other)
            IN /\ r.raised = (pc = "unflatten raised")
               /\ r.v = nested
               /\ r.input = flat

(* unflatten_schema returned a rebuilt document for an index that shares
   no key with the document's own non-empty index *)
C25_Witness ==
    /\ PathsParsed
    /\ pc = "unflattened"
    /\ used = ForeignIndex
    /\ ~Falsy(idx)
    /\ Len(Properties(FlatInput).d) >= 2
    /\ nested # FlatInput

----------------------------------------------------------------------------
(* A caller that hands unflatten_schema one flat document with its
   properties in one order or another *)

OrderPaths ==
    << <<"a">>,
       <<"b">>,
       <<"a", ".", "b">>,
       <<"b", ".", "a">>,
       <<"a", "[", "*", "]", ".", "b">>,
       <<"b", "[", "*", "]">>,
       <<"a", "[", "*", "]", "b">>,
       <<"a", "b", "[", "*", "]", ".", "a">> >>

(* The flat document of the paths numbered in S, in the order of OrderPaths *)
OrderDoc(S) ==
    Document(<<>>,
             SelectSeq([i \in 1..Len(OrderPaths) |->
                          Item(OrderPaths[i],
                               IF i \in S THEN (IF i % 2 = 1 THEN LeafA ELSE LeafB)
                               ELSE NoneV)],
                       LAMBDA it : it.val # NoneV),
             <<>>)

OrderDocs ==
    { OrderDoc(S) : S \in { T \in SUBSET (1..Len(OrderPaths)) :
                              Cardinality(T) \in {2, 3} } }

(* A copy of the flat document with its properties in the order perm *)
Reordered(flat_schema, perm) ==
    Put(flat_schema, K_properties,
        Dict([i \in 1..Len(Properties(flat_schema).d) |->
                Properties(flat_schema).d[perm[i]]]))

InitOrder ==
    /\ flat \in OrderDocs
    /\ pc = "order"
    /\ api = "dict"
    /\ doc = NoneV
    /\ detected = "unknown"
    /\ definitions = Unset
    /\ idx = NoneV
    /\ rewritten = {}
    /\ used = NoneV
    /\ nested = NoneV
    /\ calls = <<>>
    /\ loaded = NoneV

(* nested = unflattener.unflatten_schema(reordered, path_mapping); doc is
   the reordered copy as the call leaves it *)
UnflattenReordered ==
    /\ pc = "order"
    /\ \E perm \in Permutations(1..Len(Properties(flat).d)) :
          LET r == unflatten_schema(Reordered(flat, perm), ForeignIndex)
          IN /\ doc' = r.input
             /\ nested' = r.v
             /\ pc' = IF r.raised THEN "unflatten raised" ELSE "unflattened"
    /\ used' = ForeignIndex
    /\ UNCHANGED <<api, detected, definitions, flat, idx, rewritten, calls, loaded>>

NextOrder == UnflattenReordered

SpecOrder == InitOrder /\ [][NextOrder]_vars

(* The raw segment as the path grammar reads it *)
RawIsArray(segment) == EndsWith(segment, Star)

RawName(segment) ==
    IF RawIsArray(segment) THEN SubSeq(segment, 1, Len(segment) - Len(Star))
    ELSE segment

(* p and q conflict: one is a segment-wise prefix of the other, or at one
   position below the same segments a name is a plain segment in one and an
   array segment in the other *)
PathsConflict(p, q) ==
    LET sp == Split(p)
        sq == Split(q)
    IN \/ Len(sp) <= Len(sq) /\ SubSeq(sq, 1, Len(sp)) = sp
       \/ Len(sq) <= Len(sp) /\ SubSeq(sp, 1, Len(sq)) = sq
       \/ \E i \in 1..Len(sp) :
             /\ i <= Len(sq)
             /\ SubSeq(sp, 1, i - 1) = SubSeq(sq, 1, i - 1)
             /\ RawName(sp[i]) = RawName(sq[i])
             /\ RawIsArray(sp[i]) # RawIsArray(sq[i])

NoConflict(flat_schema) ==
    \A p, q \in KeysOf(Properties(flat_schema)) : p # q => ~PathsConflict(p, q)

(* C26: for a flat document whose paths do not conflict, unflatten_schema
   returns the same nested document for every order in which the flat
   properties are processed: the call on any reordering returns what the
   call on the document as it stands returns, and raises alike. *)
C26_OrderIndependent ==
    (pc \in {"unflattened", "unflatten raised"} /\ used = ForeignIndex
       /\ flat \in OrderDocs /\ NoConflict(flat))
        => LET r == unflatten_schema(flat, ForeignIndex)
           IN /\ r.raised = (pc = "unflatten raised")
              /\ ~r.raised => PyEq(r.v, nested)

----------------------------------------------------------------------------
(* A caller that flattens one document after another on one SchemaFlattener *)

(* How many flatten_schema calls the caller makes on the instance *)
MaxCalls == 2

ReuseDocs ==
    { Document(Metadata(defs), m, <<>>) : m \in SharedMaps, defs \in DefinitionTables }
    \cup { Document(MetadataNoDefinitions, m, <<>>) : m \in SharedMaps }

InitReuse ==
    /\ definitions = Unset
    /\ calls = <<>>
    /\ pc = "reuse"
    /\ api = "dict"
    /\ doc = NoneV
    /\ detected = "unknown"
    /\ flat = NoneV
    /\ idx = NoneV
    /\ rewritten = {}
    /\ used = NoneV
    /\ nested = NoneV
    /\ loaded = NoneV

(* flattened, path_mapping = flattener.flatten_schema(document), on the
   instance as the earlier calls left it; calls lists the calls made *)
FlattenNext ==
    /\ Len(calls) < MaxCalls
    /\ \E document \in ReuseDocs :
          LET r == flatten_schema(document, definitions)
          IN /\ doc' = document
             /\ flat' = r.flat
             /\ idx' = r.idx
             /\ definitions' = r.definitions
             /\ pc' = IF r.raised THEN "flatten raised" ELSE "flattened"
             /\ calls' = Append(calls,
                                [NewCall(document) EXCEPT
                                    !.at = IF r.raised THEN "raised" ELSE "returned",
                                    !.result = IF r.raised THEN NoneV
                                               ELSE Returned(r.flat, r.idx)])
    /\ UNCHANGED <<api, detected, rewritten, used, nested, loaded>>

NextReuse == FlattenNext

SpecReuse == InitReuse /\ [][NextReuse]_vars

(* C27: after any sequence of flatten_schema calls on one SchemaFlattener
   instance, flatten_schema(D) returns the same result as on a fresh
   instance: a $ref in D is resolved only against D's own definitions (an
   absent table counting as empty), never against the table stored from an
   earlier document. *)
C27_InstanceReuse ==
    Len(calls) >= 1 =>
        LET fresh == flatten_schema(doc, Unset)
        IN /\ fresh.raised = (pc = "flatten raised")
           /\ flat = fresh.flat
           /\ idx = fresh.idx

(* The second call is on a document without a definitions table whose
   $ref names a definition of the first call's table, and keeps the $ref as
   a leaf *)
C27_Witness ==
    /\ Len(calls) = 2
    /\ pc = "flattened"
    /\ ~Has(doc, K_definitions)
    /\ Has(Properties(doc), NameA)
    /\ Get(Properties(doc), NameA) = RefTo(<<"D">>)
    /\ IsResolvableRef(RefTo(<<"D">>), DefinitionsOf(calls[1].doc))
    /\ calls[1].at = "returned"
    /\ is_nested_schema(calls[1].doc)
    /\ Get(Properties(flat), NameA) = RefTo(<<"D">>)

----------------------------------------------------------------------------
(* The property names the walk of a properties mapping meets are non-empty
   and hold neither "." nor "[*]" *)
RECURSIVE NamesSane(_)
NamesSane(properties) ==
    \A i \in 1..Len(properties.d) :
        LET node == properties.d[i].val
        IN /\ SaneName(properties.d[i].key)
           /\ IF IsObjectNode(node) THEN NamesSane(Get(node, K_properties))
              ELSE IF IsArrayNode(node)
              THEN NamesSane(Get(Get(node, K_items), K_properties))
              ELSE TRUE

DocNamesSane(document) ==
    /\ NamesSane(Properties(document))
    /\ \A name \in KeysOf(DefinitionsOf(document)) :
          LET definition == Get(DefinitionsOf(document), name)
          IN (IsDict(definition) /\ Has(definition, K_properties))
                => NamesSane(Get(definition, K_properties))

(* C28: for a document D whose property names, in properties and in
   definitions, are non-empty and hold neither "." nor "[*]", with
   (F, idx) = flatten_schema(D) and N = unflatten_schema(F, idx), the flat
   properties of flatten_schema(N) equal the flat properties of F, also when
   D uses $ref or carries extra keys on object and array nodes. *)
C28_FlattenStable ==
    (api = "dict" /\ used = idx /\ rewritten = {} /\ DocNamesSane(doc)
        /\ pc \in {"unflattened", "unflatten raised"})
        => /\ pc = "unflattened"
           /\ ~flatten_schema(nested, Unset).raised
           /\ PyEq(Properties(flatten_schema(nested, Unset).flat), Properties(flat))

(* A document with a resolved $ref whose reconstruction differs from it *)
C28_Witness ==
    /\ RoundTripDone /\ DocNamesSane(doc) /\ detected = "nested"
    /\ ~PyEq(nested, doc)
    /\ \E name \in KeysOf(Properties(doc)) :
          IsResolvableRef(Get(Properties(doc), name), DefinitionsOf(doc))
    /\ \E key \in KeysOf(Properties(flat)) : Contains(key, Dot)

----------------------------------------------------------------------------
(* The property names the walk of a properties mapping meets, the empty
   name allowed, hold neither "." nor "[*]" *)
RECURSIVE NamesPlain(_)
NamesPlain(properties) ==
    \A i \in 1..Len(properties.d) :
        LET node == properties.d[i].val
        IN /\ PlainName(properties.d[i].key)
           /\ IF IsObjectNode(node) THEN NamesPlain(Get(node, K_properties))
              ELSE IF IsArrayNode(node)
              THEN NamesPlain(Get(Get(node, K_items), K_properties))
              ELSE TRUE

DocNamesPlain(document) ==
    /\ NamesPlain(Properties(document))
    /\ \A name \in KeysOf(DefinitionsOf(document)) :
          LET definition == Get(DefinitionsOf(document), name)
          IN (IsDict(definition) /\ Has(definition, K_properties))
                => NamesPlain(Get(definition, K_properties))

(* C29: in a document whose property names, possibly empty, hold neither
   "." nor "[*]", two different leaf locations never receive the same flat
   path: the number of flat properties equals the number of terminal leaves
   the walk reaches. *)
C29_PathsInjective ==
    (FlattenDoneDict /\ DocNamesPlain(doc))
        => Cardinality(KeysOf(Properties(flat))) = Len(LeafSeq(doc))

----------------------------------------------------------------------------
(* C30: for every document D, flattening the document returned by
   flatten_schema(D) again yields a properties mapping equal to the one
   returned the first time: the second pass decomposes, renames and drops
   no flat leaf. *)
C30_FlattenIdempotent ==
    (api = "dict" /\ pc = "flattened" /\ rewritten = {})
        => /\ ~flatten_schema(flat, definitions).raised
           /\ PyEq(Properties(flatten_schema(flat, definitions).flat),
                   Properties(flat))

(* The flat document of a decomposed document is itself taken as nested, so
   that the second pass walks it *)
C30_Witness ==
    /\ api = "dict" /\ pc = "flattened" /\ rewritten = {}
    /\ detected = "nested"
    /\ is_nested_schema(flat)
    /\ \E key \in KeysOf(Properties(flat)) : Contains(key, Dot)
    /\ ~PyEq(Properties(flat), Properties(doc))

====
